---- MODULE Spec2Model ----
(***************************************************************************)
(* shader_loader: the include_once preprocessor (src/src/preprocessor.rs), *)
(* the Path helper (src/src/lib.rs) and the OpenGL diagnostic remapper     *)
(* (src/src/program.rs).                                                   *)
(*                                                                         *)
(* A Rust String is a sequence of one-character strings, so that           *)
(* splitting, joining and the regular expressions are computed, not        *)
(* assumed.  Option<T> is a record [some, v]; Result<T, String> is a       *)
(* record [ok, v].                                                         *)
(***************************************************************************)
EXTENDS Integers, Sequences, FiniteSets, TLC

VARIABLES
    mode,        \* which entry point this behaviour exercises
    raw,         \* the &str argument of Path::new / FileIncludes::new
    out,         \* the value the last call returned
    protocols,   \* FileLoader.protocols: the (scheme name, loader) pairs, in order
    targets,     \* the file names the include directives of this file tree use
    disk,        \* what each loader answers for each path it has been asked for
    loads,       \* the loader invocations of this load_file call, in order
    used_files,  \* the HashSet threaded through load_file_inner
    reached,     \* the directives processed so far: (target path, expanded or blanked)
    stack,       \* the active load_file_inner calls, outermost first
    result       \* what the top-level load_file returned

vars == <<mode, raw, out, protocols, targets, disk, loads, used_files, reached, stack, result>>
loaderVars == <<protocols, targets, disk, loads, used_files, reached, stack, result>>

(* F applied to the value of v: v is evaluated once, where a LET would    *)
(* evaluate it again at each use                                           *)
Then(v, F(_)) == CHOOSE r \in {F(x) : x \in {v}} : TRUE

None == [some |-> FALSE, v |-> <<>>]
Some(x) == [some |-> TRUE, v |-> x]

(* ---------------------------------------------------------------------- *)
(* Bounds                                                                  *)
(* ---------------------------------------------------------------------- *)
MaxRawLen == 5
MaxTotalLines == 5
MaxCalls == 3

(* the top-level path and the directive targets of each file tree explored *)
Scenarios ==
    << [top |-> <<"m">>, targets |-> {<<"u">>, <<"m">>}],
       [top |-> <<"d", "/", "m">>, targets |-> {<<"u">>, <<".", ".", "/", "m">>}],
       [top |-> <<"r", "e", "s", ":", "/", "/", "d", "/", "m">>,
        targets |-> {<<"u">>, <<"r", "e", "s", ":", "/", "/", "d", "/", "u">>}],
       [top |-> <<".", "/", "m">>, targets |-> {<<"m">>, <<"f", "i", "l", "e", ":", "/", "/", "u">>}],
       [top |-> <<"m">>, targets |-> {<<"d", "/", "u">>, <<"z", "i", "p", ":", "/", "/", "u">>}],
       [top |-> <<"m">>, targets |-> {<<"u">>, <<"v">>}],
       [top |-> <<"m">>, targets |-> {<<"f", "i", "l", "e", ":", "/", "/", "u">>,
                                       <<"f", "i", "l", "e", ":", "/", "/", ".", "/", "u">>}] >>

RECURSIVE StringsUpTo(_, _)
StringsUpTo(alphabet, n) ==
    IF n = 0 THEN {<<>>}
    ELSE LET shorter == StringsUpTo(alphabet, n - 1)
         IN  shorter \cup {Append(s, c) : s \in {t \in shorter : Len(t) = n - 1}, c \in alphabet}

(* ---------------------------------------------------------------------- *)
(* str::split                                                              *)
(* ---------------------------------------------------------------------- *)
(* s.split(sep): the pieces between separators; n separators give n + 1   *)
(* pieces, so "" splits into one empty piece.                              *)
RECURSIVE SplitAcc(_, _, _, _)
SplitAcc(s, seps, i, cur) ==
    IF i > Len(s) THEN <<cur>>
    ELSE IF s[i] \in seps THEN <<cur>> \o SplitAcc(s, seps, i + 1, <<>>)
    ELSE SplitAcc(s, seps, i + 1, Append(cur, s[i]))

(* a split that drops a trailing empty piece, as str::lines does *)
SplitDropLast(s, seps) ==
    LET pieces == SplitAcc(s, seps, 1, <<>>)
    IN  IF Len(pieces) > 1 /\ pieces[Len(pieces)] = <<>>
        THEN SubSeq(pieces, 1, Len(pieces) - 1)
        ELSE pieces

Split(s, seps) == SplitAcc(s, seps, 1, <<>>)

(* [String].join(sep) *)
RECURSIVE JoinWith(_, _)
JoinWith(parts, sep) ==
    IF Len(parts) = 0 THEN <<>>
    ELSE IF Len(parts) = 1 THEN parts[1]
    ELSE parts[1] \o sep \o JoinWith(Tail(parts), sep)

(* ---------------------------------------------------------------------- *)
(* get_protocol_and_path: the regex ^(\w+)://                              *)
(* ---------------------------------------------------------------------- *)
WordChars == {"a", "b", "d", "e", "f", "i", "l", "m", "p", "r", "s", "u", "v", "x", "z"}

(* the n >= 1 with path[1..n] word characters and "://" right after them  *)
ProtocolEnds(path) ==
    {n \in 1..Len(path) :
        /\ \A k \in 1..n : path[k] \in WordChars
        /\ n + 3 <= Len(path)
        /\ path[n + 1] = ":" /\ path[n + 2] = "/" /\ path[n + 3] = "/"}

(* a split that hands the loader the path with its scheme still on it *)
GetProtocolKeepPath(path) ==
    IF ProtocolEnds(path) # {}
    THEN LET n == CHOOSE k \in ProtocolEnds(path) : TRUE
         IN  [protocol |-> Some(SubSeq(path, 1, n)), path |-> path]
    ELSE [protocol |-> None, path |-> path]

get_protocol_and_path(path) ==
    IF ProtocolEnds(path) # {}
    THEN LET n == CHOOSE k \in ProtocolEnds(path) : TRUE
         IN  [protocol |-> Some(SubSeq(path, 1, n)),
              path |-> SubSeq(path, n + 4, Len(path))]
    ELSE [protocol |-> None, path |-> path]

(* ---------------------------------------------------------------------- *)
(* Path                                                                    *)
(* ---------------------------------------------------------------------- *)
DotDot == <<".", ".">>
Dot == <<".">>

RECURSIVE SelectComponents(_)
SelectComponents(cs) ==
    IF Len(cs) = 0 THEN <<>>
    ELSE IF Len(cs[1]) > 0 /\ cs[1] # Dot
         THEN <<cs[1]>> \o SelectComponents(Tail(cs))
         ELSE SelectComponents(Tail(cs))

(* a resolution that keeps `..` when nothing is left to pop *)
RECURSIVE ResolveKeepLeadingDotDot(_, _)
ResolveKeepLeadingDotDot(cs, final_components) ==
    IF Len(cs) = 0 THEN final_components
    ELSE IF cs[1] = DotDot /\ Len(final_components) > 0
         THEN ResolveKeepLeadingDotDot(Tail(cs),
                  SubSeq(final_components, 1, Len(final_components) - 1))
         ELSE ResolveKeepLeadingDotDot(Tail(cs), Append(final_components, cs[1]))

RECURSIVE ResolveComponents(_, _)
ResolveComponents(cs, final_components) ==
    IF Len(cs) = 0 THEN final_components
    ELSE IF cs[1] = DotDot
         THEN ResolveComponents(Tail(cs),
                  IF Len(final_components) = 0 THEN final_components
                  ELSE SubSeq(final_components, 1, Len(final_components) - 1))
         ELSE ResolveComponents(Tail(cs), Append(final_components, cs[1]))

PathNew(from) ==
    LET pp == get_protocol_and_path(from)
    IN  [protocol |-> pp.protocol,
         components |->
             Then(Then(Split(pp.path, {"\\", "/"}), LAMBDA cs : SelectComponents(cs)),
                  LAMBDA cs : ResolveComponents(cs, <<>>))]

(* assert!(path.protocol.is_none()) panics: the call returns nothing      *)
PathJoin(self, q) ==
    LET path == PathNew(q)
    IN  IF path.protocol.some
        THEN [panic |-> TRUE, path |-> self]
        ELSE [panic |-> FALSE,
              path |-> [self EXCEPT !.components = self.components \o path.components]]

PathDirname(self) ==
    [self EXCEPT !.components =
        IF Len(self.components) = 0 THEN <<>>
        ELSE SubSeq(self.components, 1, Len(self.components) - 1)]

PathToString(self) ==
    IF self.protocol.some
    THEN self.protocol.v \o <<":", "/", "/">> \o JoinWith(self.components, <<"/">>)
    ELSE JoinWith(self.components, <<"/">>)


(* ---------------------------------------------------------------------- *)
(* Segment and FileIncludes.  Line numbers are 0-based as in the source;  *)
(* the line with number n is lines[n + 1].                                 *)
(* ---------------------------------------------------------------------- *)
is_inside(self, of) ==
    self.start_line >= of.start_line /\ self.end_line <= of.end_line

FileIncludesNew(text, original_file) ==
    LET lines == Split(text, {"\n"})
    IN  [lines |-> lines,
         segments |-> <<[start_line |-> 0, end_line |-> Len(lines),
                         original_file |-> original_file]>>]

FileIncludesText(self) == JoinWith(self.lines, <<"\n">>)

Covers(segment, line) == line >= segment.start_line /\ line < segment.end_line

(* the reverse scan returns the covering segment with the largest index   *)
last_segment_at(self, line) ==
    LET hits == {i \in 1..Len(self.segments) : Covers(self.segments[i], line)}
    IN  IF hits = {} THEN None
        ELSE Some(self.segments[CHOOSE i \in hits : \A j \in hits : j <= i])

(* a parent search that takes the first enclosing segment of the list *)
GetSegmentParentOutermost(self, segment) ==
    LET eq == {i \in 1..Len(self.segments) : self.segments[i] = segment}
    IN  IF eq = {} THEN None
        ELSE LET pos == CHOOSE i \in eq : \A j \in eq : i <= j
                 encl == {i \in 1..(pos - 1) : is_inside(segment, self.segments[i])}
             IN  IF encl = {} THEN None
                 ELSE Some(self.segments[CHOOSE i \in encl : \A j \in encl : i <= j])

(* position() is the first equal segment; the scan runs backwards from it *)
get_segment_parent(self, segment) ==
    LET eq == {i \in 1..Len(self.segments) : self.segments[i] = segment}
    IN  IF eq = {} THEN None
        ELSE LET pos == CHOOSE i \in eq : \A j \in eq : i <= j
                 encl == {i \in 1..(pos - 1) : is_inside(segment, self.segments[i])}
             IN  IF encl = {} THEN None
                 ELSE Some(self.segments[CHOOSE i \in encl : \A j \in encl : j <= i])

RECURSIVE SumChildExtra(_, _, _)
SumChildExtra(self, segment, i) ==
    IF i > Len(self.segments) THEN 0
    ELSE (IF LET parent == get_segment_parent(self, self.segments[i])
              IN  parent.some /\ parent.v = segment
          THEN self.segments[i].end_line - self.segments[i].start_line - 1
          ELSE 0) + SumChildExtra(self, segment, i + 1)

(* local_line is a usize and every step of the loop subtracts a value     *)
(* that is >= 0, so a build with overflow checks panics exactly when the  *)
(* exact difference is negative, and a build without them wraps.  A       *)
(* wrapped usize 2^64 + d (d < 0) is written as d.                         *)
file_and_line_at(self, line, overflow_checks) ==
    LET found == last_segment_at(self, line)
    IN  IF ~found.some THEN [kind |-> "none"]
        ELSE LET segment == found.v
                 d == (line - segment.start_line) - SumChildExtra(self, segment, 1)
             IN  IF d < 0 /\ overflow_checks THEN [kind |-> "panic"]
                 ELSE [kind |-> "some", file |-> segment.original_file, line |-> d]

RECURSIVE SelectCovering(_, _)
SelectCovering(segments, line) ==
    IF Len(segments) = 0 THEN <<>>
    ELSE IF Covers(segments[1], line)
         THEN <<segments[1]>> \o SelectCovering(Tail(segments), line)
         ELSE SelectCovering(Tail(segments), line)

(* a selection that also takes the segments ending at the line *)
AllSegmentsAtInclusiveEnd(self, line) ==
    SelectSeq(self.segments, LAMBDA segment : line >= segment.start_line /\ line <= segment.end_line)

all_segments_at(self, line) == SelectCovering(self.segments, line)

all_used_files(self) == {self.segments[i].original_file : i \in 1..Len(self.segments)}

(* a shift that also moves the start of a segment starting at the line *)
ShiftFromLine(segment, line, new_lines_count) ==
    [segment EXCEPT
        !.start_line = IF segment.start_line >= line
                       THEN segment.start_line + new_lines_count - 1
                       ELSE segment.start_line,
        !.end_line = IF segment.end_line > line
                     THEN segment.end_line + new_lines_count - 1
                     ELSE segment.end_line]

ShiftAfter(segment, line, new_lines_count) ==
    [segment EXCEPT
        !.start_line = IF segment.start_line > line
                       THEN segment.start_line + new_lines_count - 1
                       ELSE segment.start_line,
        !.end_line = IF segment.end_line > line
                     THEN segment.end_line + new_lines_count - 1
                     ELSE segment.end_line]

SpliceLines(lines, line, insert_lines) ==
    SubSeq(lines, 1, line) \o insert_lines \o SubSeq(lines, line + 2, Len(lines))

replace_line_with(self, line, with, original_file) ==
    LET insert_lines == Split(with, {"\n"})
        new_lines_count == Len(insert_lines)
    IN  [lines |-> SpliceLines(self.lines, line, insert_lines),
         segments |->
            [i \in 1..Len(self.segments) |->
                ShiftAfter(self.segments[i], line, new_lines_count)]
            \o <<[start_line |-> line, end_line |-> line + new_lines_count,
                  original_file |-> original_file]>>]

(* a splice that carries over only the nested document's own segment *)
ReplaceLineKeepFirstSegment(self, line, includes) ==
    LET new_lines_count == Len(includes.lines)
    IN  [lines |-> SpliceLines(self.lines, line, includes.lines),
         segments |->
            [i \in 1..Len(self.segments) |->
                ShiftAfter(self.segments[i], line, new_lines_count)]
            \o <<[includes.segments[1] EXCEPT
                    !.start_line = @ + line, !.end_line = @ + line]>>]

replace_line_with_includes(self, line, includes) ==
    LET new_lines_count == Len(includes.lines)
    IN  [lines |-> SpliceLines(self.lines, line, includes.lines),
         segments |->
            [i \in 1..Len(self.segments) |->
                ShiftAfter(self.segments[i], line, new_lines_count)]
            \o [i \in 1..Len(includes.segments) |->
                [includes.segments[i] EXCEPT
                    !.start_line = @ + line, !.end_line = @ + line]]]


(* ---------------------------------------------------------------------- *)
(* The files behind the loaders                                            *)
(* ---------------------------------------------------------------------- *)
FileScheme == <<"f", "i", "l", "e">>
ResScheme == <<"r", "e", "s">>

(* the loaders: load_file of the `file` scheme and closures given to      *)
(* add_protocol                                                            *)
FsLoader == "load_file"
ResLoader == "f"
OtherLoader == "g"

(* "#" stands for the text `#include_once "` that the front of            *)
(* INCLUDE_REGEX matches; the file name follows it.                        *)
Directive(t) == <<"#">> \o t \o <<"\"">>
TextLine == <<"x">>

LineChoices(ts) == {TextLine} \cup {Directive(t) : t \in ts}

Contents(ts, n) ==
    {JoinWith(ls, <<"\n">>) : ls \in StringsUpTo(LineChoices(ts), n) \ {<<>>}} \cup {<<>>}

LoaderError == [ok |-> FALSE, v |-> <<"E">>]

(* the loader's Ok answers, computed once *)
TargetSets == {Scenarios[i].targets : i \in DOMAIN Scenarios}
ContentsTable ==
    {[n |-> n, ts |-> ts, answers |-> {[ok |-> TRUE, v |-> c] : c \in Contents(ts, n)}] :
        n \in 0..MaxTotalLines, ts \in TargetSets}
AnswersFor(ts, n) == (CHOOSE r \in ContentsTable : r.n = n /\ r.ts = ts).answers

LineCount(text) == Len(Split(text, {"\n"}))

RECURSIVE LinesOnDisk(_, _)
LinesOnDisk(d, keys) ==
    IF keys = {} THEN 0
    ELSE LET k == CHOOSE x \in keys : TRUE
         IN  (IF d[k].ok THEN LineCount(d[k].v) ELSE 0) + LinesOnDisk(d, keys \ {k})

(* std::fs::canonicalize names a file by its path without `.` and `..`;   *)
(* a custom protocol is handed the path as written.                        *)
Canonicalize(filepath) ==
    Then(Then(Then(Split(filepath, {"/"}), LAMBDA cs : SelectComponents(cs)),
              LAMBDA cs : ResolveComponents(cs, <<>>)),
         LAMBDA cs : JoinWith(cs, <<"/">>))

DiskKey(scheme, filepath) ==
    IF scheme = FileScheme THEN <<scheme, Canonicalize(filepath)>> ELSE <<scheme, filepath>>


(* what protocol(filepath) may return: the answer already given for this  *)
(* file, or else any content that fits the disk, or an error.              *)
LoaderAnswers(scheme, filepath) ==
    LET key == DiskKey(scheme, filepath)
    IN  IF key \in DOMAIN disk THEN {disk[key]}
        ELSE {LoaderError} \cup
             AnswersFor(targets, MaxTotalLines - LinesOnDisk(disk, DOMAIN disk))

(* ---------------------------------------------------------------------- *)
(* FileLoader                                                              *)
(* ---------------------------------------------------------------------- *)
get_protocol(name) ==
    LET hits == {i \in 1..Len(protocols) : protocols[i].name = name}
    IN  IF hits = {} THEN None
        ELSE Some(protocols[CHOOSE i \in hits : \A j \in hits : i <= j].loader)

(* INCLUDE_REGEX.captures(line).get(2): the leftmost directive's file     *)
(* name, the longest run of [^\n\r"<>] after the opening delimiter.        *)
FilenameStops == {"\n", "\r", "\"", "<", ">"}

RECURSIVE TakeFilename(_, _)
TakeFilename(line, i) ==
    IF i > Len(line) \/ line[i] \in FilenameStops THEN <<>>
    ELSE <<line[i]>> \o TakeFilename(line, i + 1)

IncludeCapture(line) ==
    LET at == {i \in 1..Len(line) : line[i] = "#"}
    IN  IF at = {} THEN None
        ELSE Some(TakeFilename(line, (CHOOSE i \in at : \A j \in at : i <= j) + 1))

IncludeTarget(dirname, filepath) ==
    IF ~get_protocol_and_path(filepath).protocol.some
    THEN PathToString(PathJoin(dirname, filepath).path)
    ELSE filepath

RECURSIVE ScanJobs(_, _, _)
ScanJobs(lines, dirname, i) ==
    IF i > Len(lines) THEN <<>>
    ELSE Then(IncludeCapture(lines[i]),
              LAMBDA cap :
                  IF cap.some
                  THEN <<[line_id |-> i - 1, filepath |-> IncludeTarget(dirname, cap.v)]>>
                  ELSE <<>>) \o ScanJobs(lines, dirname, i + 1)

NoIncludes == [lines |-> <<>>, segments |-> <<>>]

NewFrame(path) ==
    [path |-> path, pc |-> "start", includes |-> NoIncludes,
     jobs |-> <<>>, next |-> 1, line_offset |-> 0]

Top == stack[Len(stack)]
SetTop(f) == [stack EXCEPT ![Len(stack)] = f]

LoaderIdle ==
    /\ protocols = <<[name |-> FileScheme, loader |-> FsLoader]>>
    /\ targets = {}
    /\ disk = <<>>
    /\ loads = <<>>
    /\ used_files = {}
    /\ reached = <<>>
    /\ stack = <<>>
    /\ result = [state |-> "none"]

TopPaths == {Scenarios[i].top : i \in DOMAIN Scenarios}

Init ==
    /\ mode = "load"
    /\ out = [op |-> "none"]
    /\ protocols = <<[name |-> FileScheme, loader |-> FsLoader]>>
    /\ \E i \in DOMAIN Scenarios : targets = Scenarios[i].targets /\ raw = Scenarios[i].top
    /\ disk = <<>>
    /\ loads = <<>>
    /\ used_files = {}
    /\ reached = <<>>
    /\ stack = <<>>
    /\ result = [state |-> "none"]

(* an add_protocol without the test for a registered name *)
AddProtocolAlways(protocol, loader) ==
    /\ mode \in {"load", "reg"} /\ stack = <<>> /\ result.state = "none"
    /\ Len(IF out.op = "add_protocol" THEN out.calls ELSE <<>>) < MaxCalls
    /\ out' = [op |-> "add_protocol", res |-> "Ok",
               calls |-> Append(IF out.op = "add_protocol" THEN out.calls ELSE <<>>,
                                [protocol |-> protocol, loader |-> loader, res |-> "Ok"])]
    /\ protocols' = Append(protocols, [name |-> protocol, loader |-> loader])
    /\ UNCHANGED <<mode, raw, targets, disk, loads, used_files, reached, stack, result>>

(* the add_protocol calls made so far, with what each returned *)
Calls == IF out.op = "add_protocol" THEN out.calls ELSE <<>>

(* add_protocol *)
AddProtocol(protocol, loader) ==
    /\ mode \in {"load", "reg"} /\ stack = <<>> /\ result.state = "none"
    /\ Len(Calls) < MaxCalls
    /\ IF \E i \in 1..Len(protocols) : protocols[i].name = protocol
       THEN /\ out' = [op |-> "add_protocol", res |-> "Err",
                       calls |-> Append(Calls, [protocol |-> protocol, loader |-> loader,
                                                res |-> "Err"])]
            /\ UNCHANGED protocols
       ELSE /\ out' = [op |-> "add_protocol", res |-> "Ok",
                       calls |-> Append(Calls, [protocol |-> protocol, loader |-> loader,
                                                res |-> "Ok"])]
            /\ protocols' = Append(protocols, [name |-> protocol, loader |-> loader])
    /\ UNCHANGED <<mode, raw, targets, disk, loads, used_files, reached, stack, result>>

(* load_file: a fresh HashSet and the outermost load_file_inner call *)
LoadFile ==
    /\ mode = "load" /\ stack = <<>> /\ result.state = "none"
    /\ used_files' = {}
    /\ reached' = <<>>
    /\ stack' = <<NewFrame(raw)>>
    /\ result' = [state |-> "running"]
    /\ out' = [op |-> "none"]
    /\ loads' = <<>>
    /\ UNCHANGED <<mode, raw, protocols, targets, disk>>

(* an Err leaves every active call through its `?` *)
Fail(kind, path) ==
    /\ stack' = <<>>
    /\ result' = [state |-> "err", kind |-> kind, path |-> path]

(* basic_load_file without its is_empty test *)
BasicLoadResultAcceptsEmpty(text) ==
    IF ~text.ok THEN [ok |-> FALSE, v |-> "Loader error"] ELSE text

(* basic_load_file after the protocol lookup: the loader's error, or the  *)
(* "Empty files" error for an empty text, or the text                      *)
BasicLoadResult(text) ==
    IF ~text.ok THEN [ok |-> FALSE, v |-> "Loader error"]
    ELSE IF Len(text.v) = 0 THEN [ok |-> FALSE, v |-> "Empty files"]
    ELSE text

(* load_file_inner from its entry to the end of the scan for directives   *)
(* (basic_load_file included)                                              *)
Enter ==
    /\ mode = "load" /\ stack # <<>> /\ Top.pc = "start"
    /\ \E path \in {Top.path} :
       \E pp \in {get_protocol_and_path(path)} :
       \E scheme \in {IF pp.protocol.some THEN pp.protocol.v ELSE FileScheme} :
          /\ used_files' = used_files \cup {path}
          /\ IF ~get_protocol(scheme).some
             THEN /\ Fail("Unsupported protocol", path)
                  /\ UNCHANGED <<disk, loads>>
             ELSE \E text \in LoaderAnswers(scheme, pp.path) :
                  \E file \in {BasicLoadResult(text)} :
                     /\ disk' = (DiskKey(scheme, pp.path) :> text) @@ disk
                     /\ loads' = Append(loads, [scheme |-> scheme, filepath |-> pp.path,
                                                path |-> path,
                                                loader |-> get_protocol(scheme).v])
                     /\ IF ~file.ok THEN Fail(file.v, path)
                        ELSE \E includes \in {FileIncludesNew(file.v, path)} :
                             \E dirname \in {PathDirname(PathNew(path))} :
                                 /\ stack' = SetTop([Top EXCEPT
                                                 !.pc = "jobs", !.includes = includes,
                                                 !.jobs = ScanJobs(includes.lines, dirname, 1)])
                                 /\ UNCHANGED result
    /\ UNCHANGED <<mode, raw, out, protocols, targets, reached>>

(* a check that only sees the files still being resolved *)
AlreadyIncludedOnlyActive(filepath) ==
    \E i \in 1..Len(stack) : stack[i].path = filepath

(* no check at all *)
AlreadyIncludedNever(filepath) == FALSE

(* used_files.contains(&filepath) *)
AlreadyIncluded(filepath) == filepath \in used_files

(* a directive whose file is in used_files: the line is blanked *)
JobBlank ==
    /\ mode = "load" /\ stack # <<>> /\ Top.pc = "jobs" /\ Top.next <= Len(Top.jobs)
    /\ LET job == Top.jobs[Top.next]
       IN  /\ AlreadyIncluded(job.filepath)
           /\ stack' = SetTop([Top EXCEPT
                  !.includes.lines[job.line_id + Top.line_offset + 1] = <<>>,
                  !.next = @ + 1])
           /\ reached' = Append(reached, [target |-> job.filepath, expanded |-> FALSE,
                                       from |-> Top.path])
    /\ UNCHANGED <<mode, raw, out, protocols, targets, disk, loads, used_files, result>>

(* a directive whose file is not in used_files: the recursive call *)
JobCall ==
    /\ mode = "load" /\ stack # <<>> /\ Top.pc = "jobs" /\ Top.next <= Len(Top.jobs)
    /\ LET job == Top.jobs[Top.next]
       IN  /\ ~AlreadyIncluded(job.filepath)
           /\ used_files' = used_files \cup {job.filepath}
           /\ stack' = Append(SetTop([Top EXCEPT !.pc = "wait"]), NewFrame(job.filepath))
           /\ reached' = Append(reached, [target |-> job.filepath, expanded |-> TRUE,
                                       from |-> Top.path])
    /\ UNCHANGED <<mode, raw, out, protocols, targets, disk, loads, result>>

(* a return whose caller does not advance line_offset *)
ReturnKeepOffset ==
    /\ mode = "load" /\ Len(stack) >= 2 /\ Top.pc = "jobs" /\ Top.next > Len(Top.jobs)
    /\ LET new_includes == Top.includes
           caller == stack[Len(stack) - 1]
           job == caller.jobs[caller.next]
       IN  stack' = [SubSeq(stack, 1, Len(stack) - 1) EXCEPT ![Len(stack) - 1] =
                        [caller EXCEPT
                            !.pc = "jobs",
                            !.includes = replace_line_with_includes(
                                caller.includes, job.line_id + caller.line_offset, new_includes),
                            !.next = @ + 1]]
    /\ UNCHANGED <<mode, raw, out, protocols, targets, disk, loads, used_files, reached, result>>

(* a nested call returns Ok(includes) and its caller splices the result in *)
Return ==
    /\ mode = "load" /\ Len(stack) >= 2 /\ Top.pc = "jobs" /\ Top.next > Len(Top.jobs)
    /\ LET new_includes == Top.includes
           caller == stack[Len(stack) - 1]
           job == caller.jobs[caller.next]
           offset == Len(new_includes.lines) - 1
       IN  stack' = [SubSeq(stack, 1, Len(stack) - 1) EXCEPT ![Len(stack) - 1] =
                        [caller EXCEPT
                            !.pc = "jobs",
                            !.includes = replace_line_with_includes(
                                caller.includes, job.line_id + caller.line_offset, new_includes),
                            !.line_offset = @ + offset,
                            !.next = @ + 1]]
    /\ UNCHANGED <<mode, raw, out, protocols, targets, disk, loads, used_files, reached, result>>

(* the outermost call returns Ok(includes) *)
Finish ==
    /\ mode = "load" /\ Len(stack) = 1 /\ Top.pc = "jobs" /\ Top.next > Len(Top.jobs)
    /\ result' = [state |-> "ok", includes |-> Top.includes]
    /\ stack' = <<>>
    /\ UNCHANGED <<mode, raw, out, protocols, targets, disk, loads, used_files, reached>>

Next ==
    \/ AddProtocol(FileScheme, ResLoader)
    \/ AddProtocol(ResScheme, ResLoader)
    \/ LoadFile
    \/ Enter
    \/ JobBlank
    \/ JobCall
    \/ Return
    \/ Finish

Spec == Init /\ [][Next]_vars

(* load_file_inner is ordinary synchronous code: while a call is active,  *)
(* its next step is taken.                                                 *)
Step == Enter \/ JobBlank \/ JobCall \/ Return \/ Finish

FairSpec == Init /\ [][Next]_vars /\ WF_vars(Step)

(* ---------------------------------------------------------------------- *)
(* a second load_file call on the same FileLoader                          *)
(* ---------------------------------------------------------------------- *)
(* the paths of the second call: the first call's path and the files the  *)
(* first call marked used                                                  *)
AgainPaths == {raw} \cup used_files

(* a second call that goes on with the first call's used_files *)
LoadFileAgainKeepUsed ==
    /\ mode = "load" /\ stack = <<>> /\ result.state \in {"ok", "err"}
    /\ out.op # "load_file"
    /\ \E path \in AgainPaths :
          /\ out' = [op |-> "load_file", path |-> raw, res |-> result,
                     loads |-> loads, reached |-> reached, used_files |-> used_files]
          /\ raw' = path
          /\ stack' = <<NewFrame(path)>>
    /\ UNCHANGED used_files
    /\ reached' = <<>>
    /\ result' = [state |-> "running"]
    /\ loads' = <<>>
    /\ UNCHANGED <<mode, protocols, targets, disk>>

(* load_file once more, after the first call has returned; `out` keeps    *)
(* what the first call was given and what it did                           *)
LoadFileAgain ==
    /\ mode = "load" /\ stack = <<>> /\ result.state \in {"ok", "err"}
    /\ out.op # "load_file"
    /\ \E path \in AgainPaths :
          /\ out' = [op |-> "load_file", path |-> raw, res |-> result,
                     loads |-> loads, reached |-> reached, used_files |-> used_files]
          /\ raw' = path
          /\ stack' = <<NewFrame(path)>>
    /\ used_files' = {}
    /\ reached' = <<>>
    /\ result' = [state |-> "running"]
    /\ loads' = <<>>
    /\ UNCHANGED <<mode, protocols, targets, disk>>

NextAgain == Next \/ LoadFileAgain

SpecAgain == Init /\ [][NextAgain]_vars

(* ---------------------------------------------------------------------- *)
(* add_protocol call sequences on a new FileLoader                         *)
(* ---------------------------------------------------------------------- *)
ZipScheme == <<"z", "i", "p">>
RegNames == {FileScheme, ResScheme, ZipScheme}
RegLoaders == {ResLoader, OtherLoader}

InitReg ==
    /\ mode = "reg"
    /\ raw = <<>>
    /\ out = [op |-> "none"]
    /\ LoaderIdle

NextReg == \E protocol \in RegNames, loader \in RegLoaders : AddProtocol(protocol, loader)

SpecReg == InitReg /\ [][NextReg]_vars

(* ---------------------------------------------------------------------- *)
(* Path::new and Path::join on bounded inputs                              *)
(* ---------------------------------------------------------------------- *)
PathChars == {"a", ".", "/", "\\", ":"}
(* the inputs the documentation names: "a/./b/../c" and "x/y" *)
DocPaths == {<<"a", "/", ".", "/", "b", "/", ".", ".", "/", "c">>, <<"x", "/", "y">>}
RawPaths == StringsUpTo(PathChars, MaxRawLen) \cup DocPaths
JoinArgs == {<<".", ".", "/", "z">>, <<"z">>, <<".", "/", "z">>, <<"a", "/", ".", ".", "/", "z">>,
             <<".", ".">>, <<"a", ":", "/", "/", "z">>, <<>>}

InitPath ==
    /\ mode = "path"
    /\ raw \in RawPaths
    /\ out = [op |-> "none"]
    /\ LoaderIdle

DoPathNew ==
    /\ mode = "path" /\ out.op = "none"
    /\ out' = [op |-> "new", path |-> PathNew(raw)]
    /\ UNCHANGED <<mode, raw>>
    /\ UNCHANGED loaderVars

DoPathJoin ==
    /\ mode = "path" /\ out.op = "none"
    /\ \E q \in JoinArgs :
          out' = [op |-> "join", arg |-> q, res |-> PathJoin(PathNew(raw), q)]
    /\ UNCHANGED <<mode, raw>>
    /\ UNCHANGED loaderVars

NextPath == DoPathNew \/ DoPathJoin

SpecPath == InitPath /\ [][NextPath]_vars

(* ---------------------------------------------------------------------- *)
(* FileIncludes::new and text() on bounded texts                           *)
(* ---------------------------------------------------------------------- *)
TextChars == {"x", "#", "\n"}
Texts == StringsUpTo(TextChars, MaxRawLen)
MainFile == <<"m">>

InitText ==
    /\ mode = "text"
    /\ raw \in Texts
    /\ out = [op |-> "none"]
    /\ LoaderIdle

DoFileIncludesNew ==
    /\ mode = "text" /\ out.op = "none"
    /\ out' = [op |-> "new", includes |-> FileIncludesNew(raw, MainFile)]
    /\ UNCHANGED <<mode, raw>>
    /\ UNCHANGED loaderVars

DoText ==
    /\ mode = "text" /\ out.op = "new"
    /\ out' = [op |-> "text", includes |-> out.includes, text |-> FileIncludesText(out.includes)]
    /\ UNCHANGED <<mode, raw>>
    /\ UNCHANGED loaderVars

NextText == DoFileIncludesNew \/ DoText

SpecText == InitText /\ [][NextText]_vars

(* ---------------------------------------------------------------------- *)
(* parse_opengl_errors                                                     *)
(* ---------------------------------------------------------------------- *)
DigitChars == <<"0", "1", "2", "3", "4", "5", "6", "7", "8", "9">>
IsDigit(c) == \E d \in 1..10 : DigitChars[d] = c
DigitValue(c) == (CHOOSE d \in 1..10 : DigitChars[d] = c) - 1

(* str::parse::<usize> of a run of digits (runs here stay far below 2^64) *)
RECURSIVE ParseUsize(_)
ParseUsize(digits) ==
    IF Len(digits) = 0 THEN 0
    ELSE ParseUsize(SubSeq(digits, 1, Len(digits) - 1)) * 10 + DigitValue(digits[Len(digits)])

RECURSIVE FormatNat(_)
FormatNat(n) ==
    IF n < 10 THEN <<DigitChars[n + 1]>>
    ELSE FormatNat(n \div 10) \o <<DigitChars[(n % 10) + 1]>>

(* Display of a usize.  A wrapped value is written d < 0 and stands for   *)
(* 2^64 + d = 18446744073709551616 + d; for d >= -1616 its digits are     *)
(* 1844674407370955 followed by the four digits of 1616 + d.               *)
FormatUsize(d) ==
    IF d >= 0 THEN FormatNat(d)
    ELSE LET low == 1616 + d
         IN  <<"1", "8", "4", "4", "6", "7", "4", "4", "0", "7", "3", "7", "0", "9", "5", "5">>
             \o <<DigitChars[(low \div 1000) + 1], DigitChars[((low \div 100) % 10) + 1],
                  DigitChars[((low \div 10) % 10) + 1], DigitChars[(low % 10) + 1]>>

(* the matches of ERROR_POS_REGEX, (\d)+\((\d+)\) :, in a line: s is the  *)
(* start, a the `(` and b the `)`                                          *)
ErrorPosMatches(line) ==
    {m \in (1..Len(line)) \X (1..Len(line)) \X (1..Len(line)) :
        /\ m[1] < m[2] /\ m[2] + 1 < m[3] /\ m[3] + 2 <= Len(line)
        /\ \A k \in m[1]..(m[2] - 1) : IsDigit(line[k])
        /\ line[m[2]] = "("
        /\ \A k \in (m[2] + 1)..(m[3] - 1) : IsDigit(line[k])
        /\ line[m[3]] = ")" /\ line[m[3] + 1] = " " /\ line[m[3] + 2] = ":"}

(* captures(line).get(2): the digits in the parentheses of the leftmost   *)
(* match                                                                   *)
ErrorPosCapture(line) ==
    LET ms == ErrorPosMatches(line)
    IN  IF ms = {} THEN None
        ELSE LET m == CHOOSE x \in ms : \A y \in ms : x[1] <= y[1]
             IN  Some(SubSeq(line, m[2] + 1, m[3] - 1))

StrFile == <<"F", "i", "l", "e", " ">>
StrIncludedFrom == <<" ", "i", "n", "c", "l", "u", "d", "e", "d", " ", "f", "r", "o", "m", "\n">>
StrLine == <<" ", "|", " ", "L", "i", "n", "e", " ">>
StrBar == <<" ", "|", " ">>

(* "File " and, for every covering segment but the last, its file and     *)
(* " included from\n"                                                      *)
RECURSIVE IncludesHistory(_, _)
IncludesHistory(includes_history, i) ==
    IF i > Len(includes_history) - 1 THEN <<>>
    ELSE includes_history[i].original_file \o StrIncludedFrom
         \o IncludesHistory(includes_history, i + 1)

(* one turn of the loop over the diagnostic's lines: the line to push, or *)
(* a panic of one of the unwraps or of the subtraction                     *)
RemapLine(line, file, overflow_checks) ==
    Then(ErrorPosCapture(line),
         LAMBDA caps :
            IF ~caps.some THEN [panic |-> FALSE, line |-> line]
            ELSE LET row_no == ParseUsize(caps.v)
                     at == file_and_line_at(file, row_no, overflow_checks)
                     filepath == StrFile \o IncludesHistory(all_segments_at(file, row_no), 1)
                                 \o at.file
                 IN  IF at.kind # "some" THEN [panic |-> TRUE, line |-> line]
                     ELSE [panic |-> FALSE,
                           line |-> filepath \o StrLine \o FormatUsize(at.line) \o StrBar
                                    \o line])

RECURSIVE PushLines(_)
PushLines(lines) ==
    IF Len(lines) = 0 THEN <<>>
    ELSE lines[1] \o <<"\n">> \o PushLines(Tail(lines))

parse_opengl_errors(error, file, overflow_checks) ==
    LET lines == Split(error, {"\n"})
        edited == [i \in 1..Len(lines) |-> RemapLine(lines[i], file, overflow_checks)]
    IN  IF \E i \in 1..Len(lines) : edited[i].panic
        THEN [kind |-> "panic"]
        ELSE [kind |-> "ok",
              text |-> PushLines([i \in 1..Len(lines) |-> edited[i].line])]

(* ---------------------------------------------------------------------- *)
(* Documents built by replace_line_with / replace_line_with_includes, and *)
(* parse_opengl_errors on them                                             *)
(* ---------------------------------------------------------------------- *)
MaxDocLines == 5
MaxSegments == 3
MaxRow == 6

UtilFile == <<"u">>
OtherFile == <<"v">>
DocTexts == {<<"x">>, <<"x", "\n", "x">>, <<"x", "\n", "x", "\n", "x">>}
Withs == {<<"x">>, <<"x", "\n", "x">>}
NestedDocs ==
    {FileIncludesNew(w, UtilFile) : w \in Withs} \cup
    {replace_line_with(FileIncludesNew(<<"x", "\n", "x">>, UtilFile), 0, w, OtherFile) :
        w \in Withs}

(* a compiler message for row r, lines without a match, and a line with   *)
(* two matches                                                             *)
Marker(r) == <<"0", "(">> \o FormatNat(r) \o <<")", " ", ":", " ", "e">>
DiagLines ==
    {Marker(r) : r \in 0..MaxRow} \cup
    {<<"e">>, <<>>, <<"0", "(", "1", ")", ":">>, <<"(", "1", ")", " ", ":">>,
     <<"e", " ">> \o Marker(0) \o Marker(MaxRow)}
Diagnostics ==
    DiagLines \cup
    {a \o <<"\n">> \o b : a \in DiagLines, b \in {Marker(0), <<"e">>, <<>>}}

InitDoc ==
    /\ mode = "doc"
    /\ raw \in DocTexts
    /\ out = [op |-> "doc", includes |-> FileIncludesNew(raw, MainFile)]
    /\ LoaderIdle

DocReplaceLineWith ==
    /\ mode = "doc" /\ out.op = "doc"
    /\ Len(out.includes.segments) < MaxSegments
    /\ \E line \in 0..(Len(out.includes.lines) - 1), with \in Withs,
          original_file \in {UtilFile, OtherFile} :
          /\ Len(out.includes.lines) + Len(Split(with, {"\n"})) - 1 <= MaxDocLines
          /\ out' = [out EXCEPT
                        !.includes = replace_line_with(@, line, with, original_file)]
    /\ UNCHANGED <<mode, raw>>
    /\ UNCHANGED loaderVars

DocReplaceLineWithIncludes ==
    /\ mode = "doc" /\ out.op = "doc"
    /\ \E line \in 0..(Len(out.includes.lines) - 1), nested \in NestedDocs :
          /\ Len(out.includes.segments) + Len(nested.segments) <= MaxSegments
          /\ Len(out.includes.lines) + Len(nested.lines) - 1 <= MaxDocLines
          /\ out' = [out EXCEPT !.includes = replace_line_with_includes(@, line, nested)]
    /\ UNCHANGED <<mode, raw>>
    /\ UNCHANGED loaderVars

(* parse_opengl_errors(error, &file) in a build with or without overflow  *)
(* checks                                                                  *)
Remap ==
    /\ mode = "doc" /\ out.op = "doc"
    /\ \E error \in Diagnostics, overflow_checks \in BOOLEAN :
          out' = [op |-> "remap", includes |-> out.includes, error |-> error,
                  overflow_checks |-> overflow_checks,
                  res |-> parse_opengl_errors(error, out.includes, overflow_checks)]
    /\ UNCHANGED <<mode, raw>>
    /\ UNCHANGED loaderVars

NextDoc == DocReplaceLineWith \/ DocReplaceLineWithIncludes \/ Remap

SpecDoc == InitDoc /\ [][NextDoc]_vars

(* ====================================================================== *)
(* Properties                                                              *)
(* ====================================================================== *)

(* ---- C7 --------------------------------------------------------------- *)
RawComponents(q) == SelectComponents(Split(get_protocol_and_path(q).path, {"\\", "/"}))

(* C7 as claimed: p.join(q) has the components obtained by normalizing    *)
(* p's components followed by q's raw components, so a leading `..` of q  *)
(* removes p's last component: Path::new("x/y").join("../z") is [x, z].    *)
C7_JoinResolvesLeadingDotDot ==
    (mode = "path" /\ out.op = "join" /\ ~out.res.panic) =>
        /\ out.res.path.components =
              ResolveComponents(RawComponents(out.arg), PathNew(raw).components)
        /\ (raw = <<"x", "/", "y">> /\ out.arg = <<".", ".", "/", "z">>) =>
              out.res.path.components = << <<"x">>, <<"z">> >>

(* ---- C8 --------------------------------------------------------------- *)
NormalizeStep(kept, c) ==
    IF c = <<>> \/ c = Dot THEN kept
    ELSE IF c = DotDot
         THEN (IF Len(kept) = 0 THEN kept ELSE SubSeq(kept, 1, Len(kept) - 1))
         ELSE Append(kept, c)

StepComponents == {<<>>, Dot, DotDot, <<"a">>, <<".", "a">>}

(* C8: Path::new processes the separated components left to right: one    *)
(* more component c after a separator changes the component list by       *)
(* dropping c when it is empty or `.`, removing the last kept component    *)
(* (if any) when it is `..`, and appending it otherwise; the list never    *)
(* holds an empty string, `.` or `..`; "a/./b/../c" gives [a, c].          *)
C8_PathNewNormalizes ==
    (mode = "path" /\ out.op = "new") =>
        /\ \A i \in 1..Len(out.path.components) :
              out.path.components[i] \notin {<<>>, Dot, DotDot}
        /\ raw = <<>> => out.path.components = <<>>
        /\ \A c \in StepComponents, sep \in {"/", "\\"} :
              LET longer == raw \o <<sep>> \o c
              IN  get_protocol_and_path(longer).protocol = get_protocol_and_path(raw).protocol
                  => PathNew(longer).components = NormalizeStep(out.path.components, c)
        /\ raw = <<"a", "/", ".", "/", "b", "/", ".", ".", "/", "c">>
              => out.path.components = << <<"a">>, <<"c">> >>

C8_Witness ==
    /\ mode = "path" /\ out.op = "new"
    /\ raw = <<"a", "/", ".", "/", "b", "/", ".", ".", "/", "c">>
    /\ out.path.components = << <<"a">>, <<"c">> >>

(* ---- C10 -------------------------------------------------------------- *)
CountNewlines(text) == Cardinality({i \in 1..Len(text) : text[i] = "\n"})

(* C10: FileIncludes::new(text, f).text() = text; the line count is the   *)
(* number of newlines plus one; splitting text() again gives the same     *)
(* lines; and with no line replaced file_and_line_at(i) = (f, i) for      *)
(* every i below the line count, in every build.                           *)
C10_NewTextRoundTrip ==
    /\ (mode = "text" /\ out.op \in {"new", "text"}) =>
          /\ Len(out.includes.lines) = CountNewlines(raw) + 1
          /\ \A i \in 1..Len(out.includes.lines) :
                \A k \in 1..Len(out.includes.lines[i]) : out.includes.lines[i][k] # "\n"
          /\ \A i \in 0..(Len(out.includes.lines) - 1), checks \in BOOLEAN :
                file_and_line_at(out.includes, i, checks) =
                    [kind |-> "some", file |-> MainFile, line |-> i]
    /\ (mode = "text" /\ out.op = "text") =>
          /\ out.text = raw
          /\ FileIncludesNew(out.text, MainFile).lines = out.includes.lines

C10_Witness ==
    /\ mode = "text" /\ out.op = "text"
    /\ raw = <<"x", "\n", "\n", "#", "\n">>
    /\ Len(out.includes.lines) = 4
    /\ out.text = raw

(* ---- helpers for the properties of load_file --------------------------- *)
SchemeOf(path) ==
    LET pp == get_protocol_and_path(path)
    IN  IF pp.protocol.some THEN pp.protocol.v ELSE FileScheme

PathKey(path) == DiskKey(SchemeOf(path), get_protocol_and_path(path).path)

(* the text the loader returned for a path that was loaded *)
TextOf(path) == disk[PathKey(path)].v

LinesOf(path) == Split(TextOf(path), {"\n"})

DirectiveLines(path) ==
    {i \in 0..(Len(LinesOf(path)) - 1) : IncludeCapture(LinesOf(path)[i + 1]).some}

Done == result.state = "ok"

(* ---- C1 --------------------------------------------------------------- *)
(* main has one directive, it was expanded, and the file it names has none *)
C1_Case ==
    /\ mode = "load" /\ Done
    /\ Len(result.includes.segments) = 2
    /\ Cardinality(DirectiveLines(raw)) = 1
    /\ DirectiveLines(result.includes.segments[2].original_file) = {}

(* C1 as claimed: the merged document has |main| + k - 1 lines and         *)
(* file_and_line_at gives (main, i) for i < d, (util, j) for line d + j,   *)
(* and (main, i - k + 1) for i >= d + k.                                    *)
C1_NestedProvenance ==
    C1_Case =>
        LET util == result.includes.segments[2].original_file
            d == CHOOSE i \in DirectiveLines(raw) : TRUE
            k == Len(LinesOf(util))
            n == Len(LinesOf(raw))
        IN  /\ Len(result.includes.lines) = n + k - 1
            /\ \A i \in 0..(n + k - 2), checks \in BOOLEAN :
                  file_and_line_at(result.includes, i, checks) =
                      IF i < d THEN [kind |-> "some", file |-> raw, line |-> i]
                      ELSE IF i < d + k THEN [kind |-> "some", file |-> util, line |-> i - d]
                      ELSE [kind |-> "some", file |-> raw, line |-> i - k + 1]

(* ---- C5 --------------------------------------------------------------- *)
(* the diagnostic lines whose row number no segment covers *)
Unmappable(error, file) ==
    {i \in 1..Len(Split(error, {"\n"})) :
        LET caps == ErrorPosCapture(Split(error, {"\n"})[i])
        IN  caps.some /\ ~last_segment_at(file, ParseUsize(caps.v)).some}

Unmatched(error) ==
    {i \in 1..Len(Split(error, {"\n"})) : ~ErrorPosCapture(Split(error, {"\n"})[i]).some}

(* C5 as claimed: parse_opengl_errors returns its output for every        *)
(* diagnostic and every document, and when every line of the diagnostic   *)
(* is without a row number or has one that no segment covers, the output  *)
(* is the lines as received.                                               *)
C5_NeverFails ==
    (mode = "doc" /\ out.op = "remap") =>
        /\ out.res.kind = "ok"
        /\ (Unmappable(out.error, out.includes) \cup Unmatched(out.error)
                = 1..Len(Split(out.error, {"\n"})))
              => out.res.text = PushLines(Split(out.error, {"\n"}))

(* ---- C6 --------------------------------------------------------------- *)
(* the target relative to the directory of the including file: the path   *)
(* "<dirname>/<target>", normalized                                        *)
RelativeTo(path, target) ==
    PathToString(PathNew(PathToString(PathDirname(PathNew(path))) \o <<"/">> \o target))

(* C6 as claimed: in every file, nested or not, a directive target         *)
(* without a protocol is loaded from the directory of the file holding    *)
(* the directive, with that file's protocol, and a target with a protocol *)
(* is loaded verbatim.                                                     *)
C6_RelativeToIncluder ==
    \A f \in 1..Len(stack) :
        (stack[f].pc = "jobs" /\ stack[f].next = 1) =>
            \A j \in 1..Len(stack[f].jobs) :
                LET job == stack[f].jobs[j]
                    target == IncludeCapture(stack[f].includes.lines[job.line_id + 1]).v
                IN  job.filepath =
                        IF get_protocol_and_path(target).protocol.some THEN target
                        ELSE RelativeTo(stack[f].path, target)

(* ---- C9 --------------------------------------------------------------- *)
LoadedPaths == {loads[i].path : i \in 1..Len(loads)}

(* C9: after a successful resolve all_used_files() is the set of paths a  *)
(* loader was invoked for during the resolve: the top-level path and      *)
(* every expanded directive's target, and no target that was only         *)
(* blanked.                                                                *)
C9_AllUsedFiles ==
    (mode = "load" /\ Done) =>
        /\ all_used_files(result.includes) = LoadedPaths
        /\ all_used_files(result.includes) =
              {raw} \cup {reached[i].target : i \in {k \in 1..Len(reached) : reached[k].expanded}}
        /\ C1_Case => all_used_files(result.includes) =
              {raw, result.includes.segments[2].original_file}

C9_Witness ==
    /\ mode = "load" /\ Done
    /\ Cardinality(all_used_files(result.includes)) = 3
    /\ \E i \in 1..Len(reached) : ~reached[i].expanded
    /\ \E i \in 1..Len(result.includes.segments) :
          /\ result.includes.segments[i].original_file # raw
          /\ DirectiveLines(result.includes.segments[i].original_file) # {}

(* ---- C2 --------------------------------------------------------------- *)
ReachedAt(B) == {i \in 1..Len(reached) : reached[i].target = B}
FirstReached(B) == CHOOSE i \in ReachedAt(B) : \A j \in ReachedAt(B) : i <= j

SegmentsOfFile(includes, B) ==
    {i \in 1..Len(includes.segments) : includes.segments[i].original_file = B}

LoadsOf(B) == {i \in 1..Len(loads) : loads[i].path = B}

RECURSIVE SumLineCounts(_)
SumLineCounts(paths) ==
    IF paths = {} THEN 0
    ELSE LET q == CHOOSE x \in paths : TRUE
         IN  Len(LinesOf(q)) + SumLineCounts(paths \ {q})

EmptyLines(includes) == {i \in 1..Len(includes.lines) : includes.lines[i] = <<>>}

(* what holds of every target path B that directives name, whichever of   *)
(* them is expanded: one copy of B in the output, one load of B, every    *)
(* directive after the first blanked, and every blanked directive one     *)
(* empty line (the files on disk hold no empty line of their own)          *)
IncludedOnce(B) ==
    /\ Cardinality(SegmentsOfFile(result.includes, B)) = 1
    /\ Cardinality(LoadsOf(B)) = 1
    /\ \A i \in ReachedAt(B) : i # FirstReached(B) => ~reached[i].expanded

BlankedAreEmptyLines ==
    /\ Cardinality(EmptyLines(result.includes)) =
          Cardinality({i \in 1..Len(reached) : ~reached[i].expanded})
    /\ Len(result.includes.lines) =
          SumLineCounts(LoadedPaths) - Cardinality({i \in 1..Len(reached) : reached[i].expanded})

(* C2 as claimed: when directives name the same target path B more than   *)
(* once, the first one reached is expanded and every later one is a       *)
(* single empty line, with B loaded and present once.                      *)
C2_FirstDirectiveExpanded ==
    (mode = "load" /\ Done) =>
        \A i \in 1..Len(reached) :
            LET B == reached[i].target
            IN  Cardinality(ReachedAt(B)) > 1 =>
                    /\ IncludedOnce(B)
                    /\ reached[FirstReached(B)].expanded
                    /\ BlankedAreEmptyLines

(* C2 amended: as claimed, except that when B is the path load_file was   *)
(* called with, no directive naming B is expanded: B's one copy is the    *)
(* top-level text itself and the first directive is blanked as well.       *)
C2_IncludeOnce ==
    (mode = "load" /\ Done) =>
        \A i \in 1..Len(reached) :
            LET B == reached[i].target
            IN  Cardinality(ReachedAt(B)) > 1 =>
                    /\ IncludedOnce(B)
                    /\ reached[FirstReached(B)].expanded <=> B # raw
                    /\ BlankedAreEmptyLines

(* B is named by two different includers, expanded for the first and      *)
(* blanked for the second                                                  *)
C2_Witness ==
    /\ mode = "load" /\ Done
    /\ \E i, j \in 1..Len(reached) :
          /\ i < j /\ reached[i].target = reached[j].target
          /\ reached[i].expanded /\ ~reached[j].expanded
          /\ reached[i].target # raw
          /\ \E k \in (i + 1)..(j - 1) : reached[k].expanded
    /\ Cardinality(all_used_files(result.includes)) = 3

(* ---- C3 --------------------------------------------------------------- *)
(* no file is being resolved twice at once, and every nested call is for  *)
(* a file that has been marked used                                        *)
NoFileActiveTwice ==
    /\ \A i, j \in 1..Len(stack) : i # j => stack[i].path # stack[j].path
    /\ \A i \in 2..Len(stack) : stack[i].path \in used_files
    /\ Len(stack) <= Cardinality(used_files) + 1

(* C3: every load_file call returns a result or an error, on every        *)
(* include graph, cyclic ones included; the recursion never enters a file *)
(* that is already being resolved.                                         *)
C3_Terminates ==
    /\ (result.state = "running") ~> (result.state \in {"ok", "err"})
    /\ [](mode = "load" => NoFileActiveTwice)

(* a resolve over a cycle through a nested file has returned: a directive *)
(* of a nested file names the top-level file, or the nested file itself   *)
C3_Witness ==
    /\ mode = "load" /\ Done
    /\ \E i, j \in 1..Len(reached) :
          /\ i < j /\ reached[i].expanded /\ ~reached[j].expanded
          /\ reached[j].target \in {raw, reached[i].target}
          /\ \A k \in (i + 1)..(j - 1) : ~reached[k].expanded
          /\ \E n \in DirectiveLines(reached[i].target) :
                IncludeTarget(PathDirname(PathNew(reached[i].target)),
                    IncludeCapture(LinesOf(reached[i].target)[n + 1]).v) = reached[j].target

(* ---- C4 --------------------------------------------------------------- *)
LoadFailed(i) ==
    LET answer == disk[DiskKey(loads[i].scheme, loads[i].filepath)]
    IN  ~answer.ok \/ Len(answer.v) = 0

FrameDocs ==
    {stack[i].includes : i \in 1..Len(stack)} \cup
    (IF Done THEN {result.includes} ELSE {})

(* C4: a failing load is the last loader invocation of the resolve and    *)
(* makes the result that error with no call left active and no document   *)
(* returned; an unregistered scheme fails without a loader invocation;    *)
(* no document, finished or under construction, holds a segment of a file *)
(* that was not loaded successfully; a resolve that returns a document    *)
(* had no failing load.                                                    *)
C4_FailurePropagates ==
    mode = "load" =>
        /\ \A i \in 1..Len(loads) :
              LoadFailed(i) =>
                  /\ i = Len(loads)
                  /\ result.state = "err"
                  /\ result.path = loads[i].path
                  /\ result.kind = (IF disk[PathKey(result.path)].ok
                                    THEN "Empty files" ELSE "Loader error")
        /\ result.state = "err" =>
              /\ stack = <<>>
              /\ DOMAIN result = {"state", "kind", "path"}
              /\ result.path \in used_files
              /\ IF get_protocol(SchemeOf(result.path)).some
                 THEN LoadFailed(Len(loads)) /\ loads[Len(loads)].path = result.path
                 ELSE result.kind = "Unsupported protocol" /\ result.path \notin LoadedPaths
        /\ \A doc \in FrameDocs : \A p \in all_used_files(doc) :
              \E i \in 1..Len(loads) : loads[i].path = p /\ ~LoadFailed(i)
        /\ Done => \A p \in used_files :
              /\ get_protocol(SchemeOf(p)).some
              /\ disk[PathKey(p)].ok /\ Len(TextOf(p)) > 0

(* a nested load failed after the top-level file and another file loaded  *)
C4_Witness ==
    /\ mode = "load" /\ result.state = "err"
    /\ Len(loads) >= 2
    /\ Cardinality(used_files) = 3

C4_WitnessUnsupported ==
    /\ mode = "load" /\ result.state = "err"
    /\ result.kind = "Unsupported protocol"
    /\ Len(loads) >= 1

(* ---- C11 -------------------------------------------------------------- *)
(* the n for which path is n word characters, then "://", then the rest   *)
SchemeLengths(path) ==
    {n \in 1..(Len(path) - 3) :
        /\ \A k \in 1..n : path[k] \in WordChars
        /\ SubSeq(path, n + 1, n + 3) = <<":", "/", "/">>}

RegisteredUnder(S) == {protocols[k].loader : k \in {j \in 1..Len(protocols) : protocols[j].name = S}}

(* C11: every loader invocation for a path S://rest is of the loader      *)
(* registered under S with the argument rest, and for a path without a    *)
(* scheme of the `file` loader with the whole path; a path whose scheme   *)
(* is not registered fails as unsupported, once its load has begun, with *)
(* no loader invoked for it;                                               *)
(* a directive-free top-level file resolves to the text its loader        *)
(* returned.                                                               *)
C11_Dispatch ==
    mode = "load" =>
        /\ \A i \in 1..Len(loads) :
              LET path == loads[i].path
              IN  /\ \A n \in SchemeLengths(path) :
                        /\ loads[i].scheme = SubSeq(path, 1, n)
                        /\ loads[i].filepath = SubSeq(path, n + 4, Len(path))
                  /\ SchemeLengths(path) = {} =>
                        /\ loads[i].scheme = FileScheme
                        /\ loads[i].loader = FsLoader
                        /\ loads[i].filepath = path
                  /\ RegisteredUnder(loads[i].scheme) = {loads[i].loader}
        /\ \A p \in used_files \ {stack[f].path : f \in {g \in 1..Len(stack) : stack[g].pc = "start"}} :
              (\E n \in SchemeLengths(p) : RegisteredUnder(SubSeq(p, 1, n)) = {}) =>
                  /\ result = [state |-> "err", kind |-> "Unsupported protocol", path |-> p]
                  /\ p \notin LoadedPaths
        /\ (result.state = "err" /\ result.kind = "Unsupported protocol") =>
              \E n \in SchemeLengths(result.path) :
                  RegisteredUnder(SubSeq(result.path, 1, n)) = {}
        /\ (Done /\ Len(loads) = 1 /\ reached = <<>>) =>
              /\ FileIncludesText(result.includes) = disk[DiskKey(loads[1].scheme, loads[1].filepath)].v
              /\ Len(result.includes.segments) = 1

(* res://d/m was loaded by the loader registered under res and resolved   *)
(* to the text that loader returned                                        *)
C11_Witness ==
    /\ mode = "load" /\ Done /\ Len(loads) = 1 /\ reached = <<>>
    /\ loads[1] = [scheme |-> ResScheme, filepath |-> <<"d", "/", "m">>,
                   path |-> raw, loader |-> ResLoader]
    /\ Len(result.includes.lines) = 2

(* a top-level path with an unregistered scheme can not occur here; the   *)
(* unsupported scheme is a directive's                                     *)
C11_WitnessUnsupported ==
    /\ mode = "load" /\ result.state = "err" /\ result.kind = "Unsupported protocol"
    /\ Len(loads) >= 1

(* ---- C12 -------------------------------------------------------------- *)
(* the calls before call k that name the same scheme *)
EarlierCalls(k) == {j \in 1..(k - 1) : Calls[j].protocol = Calls[k].protocol}

OkCalls == SelectSeq(Calls, LAMBDA c : c.res = "Ok")

(* C12: a call returns an error exactly when its scheme is `file` or was  *)
(* named by an earlier call; the registry is the built-in `file` entry    *)
(* followed by the (scheme, loader) pairs of the calls that returned Ok,  *)
(* so an erring call changed nothing; every scheme name is in it once;    *)
(* get_protocol gives load_file for `file`, the loader of the first call  *)
(* naming the scheme for a scheme that was named, and nothing otherwise.   *)
C12_AddProtocol ==
    mode = "reg" =>
        /\ \A k \in 1..Len(Calls) :
              Calls[k].res = (IF Calls[k].protocol = FileScheme \/ EarlierCalls(k) # {}
                              THEN "Err" ELSE "Ok")
        /\ protocols = <<[name |-> FileScheme, loader |-> FsLoader]>> \o
              [i \in 1..Len(OkCalls) |->
                  [name |-> OkCalls[i].protocol, loader |-> OkCalls[i].loader]]
        /\ \A i, j \in 1..Len(protocols) : protocols[i].name = protocols[j].name => i = j
        /\ get_protocol(FileScheme) = Some(FsLoader)
        /\ \A name \in RegNames \ {FileScheme} :
              LET named == {k \in 1..Len(Calls) : Calls[k].protocol = name}
              IN  get_protocol(name) =
                      IF named = {} THEN None
                      ELSE Some(Calls[CHOOSE k \in named : \A j \in named : k <= j].loader)

(* res was registered with one loader, then again with another (an        *)
(* error), and `file` was refused                                          *)
C12_Witness ==
    /\ mode = "reg" /\ Len(Calls) = 3
    /\ Calls[1] = [protocol |-> ResScheme, loader |-> ResLoader, res |-> "Ok"]
    /\ Calls[2] = [protocol |-> ResScheme, loader |-> OtherLoader, res |-> "Err"]
    /\ Calls[3] = [protocol |-> FileScheme, loader |-> OtherLoader, res |-> "Err"]
    /\ Len(protocols) = 2

(* ---- C13 -------------------------------------------------------------- *)
(* C13: a second load_file call starts from an empty used_files: only     *)
(* paths of the second call are marked used during it; called with the    *)
(* first call's path it makes the same loader invocations, treats every   *)
(* directive as the first call did and returns the first call's result,   *)
(* which was obtained on a new FileLoader; called with a file the first   *)
(* call had included, the first directive reached for each target other   *)
(* than the called path is expanded, whether or not the first call had    *)
(* marked that target used.                                                *)
C13_FreshUsedFiles ==
    (mode = "load" /\ out.op = "load_file") =>
        /\ used_files \subseteq {raw} \cup {reached[i].target : i \in 1..Len(reached)}
        /\ (result.state \in {"ok", "err"} /\ raw = out.path) =>
              /\ result = out.res
              /\ loads = out.loads
              /\ reached = out.reached
        /\ \A i \in 1..Len(reached) :
              reached[FirstReached(reached[i].target)].expanded <=> reached[i].target # raw

(* the second call was for the same path, and a file the first call had   *)
(* included was expanded again                                             *)
C13_Witness ==
    /\ mode = "load" /\ out.op = "load_file" /\ Done
    /\ raw = out.path
    /\ \E i \in 1..Len(reached) : reached[i].expanded /\ reached[i].target \in out.used_files
    /\ \E i \in 1..Len(reached) : ~reached[i].expanded

(* the second call was for a file the first call had included, and it     *)
(* expanded a file the first call had marked used                          *)
C13_WitnessOtherPath ==
    /\ mode = "load" /\ out.op = "load_file" /\ Done
    /\ raw # out.path
    /\ \E i \in 1..Len(reached) : reached[i].expanded /\ reached[i].target \in out.used_files

(* ---- C14 -------------------------------------------------------------- *)
ErrorLines == Split(out.error, {"\n"})

(* the row number a diagnostic line carries, if it matches the pattern *)
RowOf(line) ==
    LET caps == ErrorPosCapture(line)
    IN  IF caps.some THEN Some(ParseUsize(caps.v)) ELSE None

(* the prefix section 4.4 describes: the include chain, the file and the  *)
(* local line that file_and_line_at gives                                  *)
ExpectedPrefix(file, row, overflow_checks) ==
    LET at == file_and_line_at(file, row, overflow_checks)
        chain == all_segments_at(file, row)
    IN  StrFile
        \o IncludesHistory(chain, 1)
        \o at.file \o StrLine \o FormatUsize(at.line) \o StrBar

ExpectedLine(line, file, overflow_checks) ==
    IF RowOf(line).some /\ last_segment_at(file, RowOf(line).v).some
    THEN ExpectedPrefix(file, RowOf(line).v, overflow_checks) \o line
    ELSE line

(* the output is the input's lines in order, each ended by a newline, a   *)
(* matching line with a covered row behind its prefix and every other     *)
(* line as it was                                                          *)
RemapFormat ==
    out.res.text =
        PushLines([i \in 1..Len(ErrorLines) |->
                      ExpectedLine(ErrorLines[i], out.includes, out.overflow_checks)])

(* C14 as claimed: when every row the diagnostic names is covered by the  *)
(* document, parse_opengl_errors returns the lines in order, the matching *)
(* ones behind a prefix naming the file and local line of                 *)
(* file_and_line_at and the others unchanged.                              *)
C14_RemapFormat ==
    (/\ mode = "doc" /\ out.op = "remap"
     /\ \A i \in 1..Len(ErrorLines) :
           RowOf(ErrorLines[i]).some => last_segment_at(out.includes, RowOf(ErrorLines[i]).v).some)
        => out.res.kind = "ok" /\ RemapFormat

(* ---- the depth-first expansion of a file, line by line ----------------- *)
(* Each merged line with the file it comes from and its 0-based index in  *)
(* that file.  A directive whose target is in `used` gives one empty line *)
(* of the file holding the directive; any other directive gives the       *)
(* expansion of its target, which is marked used first.                    *)
RECURSIVE ExpandFrom(_, _, _, _)
ExpandFrom(path, lines, i, used) ==
    IF i > Len(lines) THEN [lines |-> <<>>, used |-> used]
    ELSE LET cap == IncludeCapture(lines[i])
             target == IncludeTarget(PathDirname(PathNew(path)), cap.v)
         IN  IF ~cap.some
             THEN LET rest == ExpandFrom(path, lines, i + 1, used)
                  IN  [lines |-> <<[text |-> lines[i], file |-> path, line |-> i - 1]>>
                                 \o rest.lines,
                       used |-> rest.used]
             ELSE IF target \in used
             THEN LET rest == ExpandFrom(path, lines, i + 1, used)
                  IN  [lines |-> <<[text |-> <<>>, file |-> path, line |-> i - 1]>>
                                 \o rest.lines,
                       used |-> rest.used]
             ELSE LET nested == ExpandFrom(target, LinesOf(target), 1, used \cup {target})
                      rest == ExpandFrom(path, lines, i + 1, nested.used)
                  IN  [lines |-> nested.lines \o rest.lines, used |-> rest.used]

Expansion == ExpandFrom(raw, LinesOf(raw), 1, {raw}).lines

(* ---- C15 -------------------------------------------------------------- *)
(* the direct children of the segment owning `line` that end at or before *)
(* it, and the local line the claim describes                              *)
ChildrenBefore(self, segment, line) ==
    {i \in 1..Len(self.segments) :
        /\ get_segment_parent(self, self.segments[i]) = Some(segment)
        /\ self.segments[i].end_line <= line}

RECURSIVE SumExtra(_, _)
SumExtra(self, is) ==
    IF is = {} THEN 0
    ELSE LET i == CHOOSE x \in is : TRUE
         IN  (self.segments[i].end_line - self.segments[i].start_line - 1)
             + SumExtra(self, is \ {i})

ClaimedLocalLine(self, line) ==
    LET segment == last_segment_at(self, line).v
    IN  (line - segment.start_line) - SumExtra(self, ChildrenBefore(self, segment, line))

C15_Case ==
    /\ mode = "load" /\ Done
    /\ Len(result.includes.segments) >= 3

(* C15 as claimed: in a resolved document with several expanded           *)
(* directives or nested includes, file_and_line_at of every merged line   *)
(* is the file the line comes from and its 0-based index there, which is  *)
(* the offset in the owning segment less the extra lines of the direct    *)
(* children that end before the line.                                      *)
C15_LocalLine ==
    C15_Case =>
        LET expansion == Expansion
        IN  \A line \in 0..(Len(result.includes.lines) - 1), checks \in BOOLEAN :
                /\ file_and_line_at(result.includes, line, checks) =
                      [kind |-> "some", file |-> expansion[line + 1].file,
                       line |-> expansion[line + 1].line]
                /\ ClaimedLocalLine(result.includes, line) = expansion[line + 1].line

(* ---- C16 -------------------------------------------------------------- *)
(* C16 as claimed: on every document built by replace_line_with and       *)
(* replace_line_with_includes, file_and_line_at is none exactly for the   *)
(* lines at or beyond the line count, a line is beyond the line count     *)
(* exactly when no segment covers it, and for a covered line the call     *)
(* returns a pair whose local line was computed without going below zero. *)
C16_NoUnderflow ==
    (mode = "doc" /\ out.op = "doc") =>
        \A line \in 0..(MaxDocLines + 1), checks \in BOOLEAN :
            LET at == file_and_line_at(out.includes, line, checks)
            IN  /\ (at.kind = "none") <=> (line >= Len(out.includes.lines))
                /\ last_segment_at(out.includes, line).some <=> (line < Len(out.includes.lines))
                /\ line < Len(out.includes.lines) => (at.kind = "some" /\ at.line >= 0)

(* ---- C17 -------------------------------------------------------------- *)
(* C17: the lines of a resolved document are the depth-first expansion of *)
(* the top-level file; its text() is those lines joined by newlines.       *)
C17_DepthFirstExpansion ==
    (mode = "load" /\ Done) =>
        LET expansion == Expansion
            texts == [i \in 1..Len(expansion) |-> expansion[i].text]
        IN  /\ result.includes.lines = texts
            /\ FileIncludesText(result.includes) = JoinWith(texts, <<"\n">>)

(* the top-level file has two directives, both expanded by the top-level *)
(* call, the first into more than one line                                 *)
C17_Witness ==
    /\ mode = "load" /\ Done
    /\ Cardinality(DirectiveLines(raw)) = 2
    /\ DirectiveLines(reached[1].target) = {}
    /\ reached[1].target # reached[2].target
    /\ Len(reached) = 2 /\ reached[1].expanded /\ reached[2].expanded
    /\ Len(LinesOf(reached[1].target)) = 2

(* a file has an expanded directive behind a blanked one *)
C17_WitnessBlank ==
    /\ mode = "load" /\ Done
    /\ \E i \in 1..(Len(reached) - 1) : ~reached[i].expanded /\ reached[i + 1].expanded

(* ---- C18 -------------------------------------------------------------- *)
(* the file whose directive was expanded into file B *)
IncluderOf(B) ==
    reached[CHOOSE i \in 1..Len(reached) : reached[i].target = B /\ reached[i].expanded].from

(* C18: in a resolved document the first segment has no parent, and every *)
(* other segment has a parent that stands before it in the list and is a  *)
(* segment of the file whose directive included the segment's file.        *)
C18_SegmentParent ==
    (mode = "load" /\ Done) =>
        LET segments == result.includes.segments
        IN  /\ get_segment_parent(result.includes, segments[1]) = None
            /\ \A k \in 2..Len(segments) :
                  LET parent == get_segment_parent(result.includes, segments[k])
                  IN  /\ parent.some
                      /\ \E j \in 1..(k - 1) : segments[j] = parent.v
                      /\ parent.v.original_file = IncluderOf(segments[k].original_file)

(* an include nested in an include, whose segment has the same range as   *)
(* its parent's                                                            *)
C18_Witness ==
    /\ mode = "load" /\ Done
    /\ Len(result.includes.segments) >= 3
    /\ \E k \in 3..Len(result.includes.segments) :
          LET parent == get_segment_parent(result.includes, result.includes.segments[k])
          IN  /\ parent.some /\ parent.v.original_file # raw
              /\ parent.v.start_line = result.includes.segments[k].start_line
              /\ parent.v.end_line = result.includes.segments[k].end_line

(* ---- C19 -------------------------------------------------------------- *)
(* the indices of the segments whose range contains the line, and the     *)
(* k-th of them in list order                                              *)
CoveringIndices(self, line) ==
    {i \in 1..Len(self.segments) :
        self.segments[i].start_line <= line /\ line < self.segments[i].end_line}

KthIndex(is, k) == CHOOSE i \in is : Cardinality({j \in is : j <= i}) = k

(* C19: in a resolved document all_segments_at(line) is the segments      *)
(* containing the line in list order; for a line of the document it       *)
(* starts with the top-level segment, each entry is the parent of the     *)
(* next, and the last entry is what last_segment_at returns, a segment of *)
(* the file the line comes from; for a line beyond the document it is     *)
(* empty.                                                                  *)
C19_IncludeChain ==
    (mode = "load" /\ Done) =>
        LET self == result.includes
            expansion == Expansion
        IN  \A line \in 0..Len(self.lines) :
                LET chain == all_segments_at(self, line)
                    is == CoveringIndices(self, line)
                IN  /\ chain = [k \in 1..Cardinality(is) |-> self.segments[KthIndex(is, k)]]
                    /\ line = Len(self.lines) => chain = <<>>
                    /\ line < Len(self.lines) =>
                          /\ chain # <<>>
                          /\ chain[1] = self.segments[1]
                          /\ chain[1].original_file = raw
                          /\ \A k \in 1..(Len(chain) - 1) :
                                get_segment_parent(self, chain[k + 1]) = Some(chain[k])
                          /\ last_segment_at(self, line) = Some(chain[Len(chain)])
                          /\ chain[Len(chain)].original_file = expansion[line + 1].file

(* a line three includes deep, behind an include that has ended *)
C19_Witness ==
    /\ mode = "load" /\ Done
    /\ \E line \in 1..(Len(result.includes.lines) - 1) :
          /\ Len(all_segments_at(result.includes, line)) = 3
          /\ \E i \in 1..Len(result.includes.segments) :
                result.includes.segments[i].end_line = line

(* ---- C20 -------------------------------------------------------------- *)
Disjoint(a, b) == a.end_line <= b.start_line \/ b.end_line <= a.start_line

(* C20: after FileIncludes::new and any replace_line_with and             *)
(* replace_line_with_includes calls at lines of the document, every       *)
(* segment is non-empty and ends within the document, the first segment   *)
(* is the whole document under the top-level file's name, and two         *)
(* segments are disjoint or one encloses the other.                        *)
C20_SegmentsWellFormed ==
    (mode = "doc" /\ out.op = "doc") =>
        LET segments == out.includes.segments
            count == Len(out.includes.lines)
        IN  /\ \A i \in 1..Len(segments) :
                  /\ 0 <= segments[i].start_line
                  /\ segments[i].start_line < segments[i].end_line
                  /\ segments[i].end_line <= count
            /\ segments[1] = [start_line |-> 0, end_line |-> count, original_file |-> MainFile]
            /\ \A i, j \in 1..Len(segments) :
                  \/ Disjoint(segments[i], segments[j])
                  \/ is_inside(segments[i], segments[j])
                  \/ is_inside(segments[j], segments[i])

(* three segments: the third starts where the second, an inserted one,   *)
(* starts and ends before it, inside a longer document                     *)
C20_Witness ==
    /\ mode = "doc" /\ out.op = "doc"
    /\ Len(out.includes.segments) = 3
    /\ out.includes.segments[2].start_line = out.includes.segments[3].start_line
    /\ out.includes.segments[3].end_line < out.includes.segments[2].end_line
    /\ out.includes.segments[2].start_line > 0
    /\ out.includes.segments[2].end_line < Len(out.includes.lines)

(* ====================================================================== *)
(* replace_line_with_includes as one recorded call: the document before   *)
(* it, its arguments and the document after it.  The texts have distinct  *)
(* lines, so that a line's content tells where it came from.              *)
(* ====================================================================== *)
MaxSpliceSegments == 4

SpliceTexts == {<<"a">>, <<"a", "\n", "b">>, <<"a", "\n", "b", "\n", "c">>}

(* nested documents as load_file_inner builds them for a file u: plain,   *)
(* with v expanded at its first, middle or last line, and u being nothing *)
(* but the directive                                                       *)
SpliceDocs ==
    {FileIncludesNew(<<"p">>, UtilFile),
     FileIncludesNew(<<"p", "\n", "q">>, UtilFile),
     replace_line_with(FileIncludesNew(<<"p">>, UtilFile), 0, <<"r", "\n", "s">>, OtherFile),
     replace_line_with(FileIncludesNew(<<"p", "\n", "q">>, UtilFile), 0,
                       <<"r", "\n", "s">>, OtherFile),
     replace_line_with(FileIncludesNew(<<"p", "\n", "q">>, UtilFile), 1,
                       <<"r", "\n", "s">>, OtherFile),
     replace_line_with(FileIncludesNew(<<"p", "\n", "#", "\n", "q">>, UtilFile), 1,
                       <<"r", "\n", "s">>, OtherFile)}

InitSplice ==
    /\ mode = "doc"
    /\ raw \in SpliceTexts
    /\ out = [op |-> "doc", includes |-> FileIncludesNew(raw, MainFile)]
    /\ LoaderIdle

Splice ==
    /\ mode = "doc" /\ out.op = "doc"
    /\ \E line \in 0..(Len(out.includes.lines) - 1), nested \in SpliceDocs :
          /\ Len(out.includes.segments) + Len(nested.segments) <= MaxSpliceSegments
          /\ Len(out.includes.lines) + Len(nested.lines) - 1 <= MaxDocLines
          /\ out' = [op |-> "splice", before |-> out.includes, line |-> line,
                     nested |-> nested,
                     includes |-> replace_line_with_includes(out.includes, line, nested)]
    /\ UNCHANGED <<mode, raw>>
    /\ UNCHANGED loaderVars

NextSplice == DocReplaceLineWith \/ DocReplaceLineWithIncludes \/ Splice

SpecSplice == InitSplice /\ [][NextSplice]_vars

(* ---- C21 -------------------------------------------------------------- *)
Spliced == mode = "doc" /\ out.op = "splice"

(* the lines of the document: the nested lines at line + j, the lines     *)
(* before `line` in place, the lines after it moved by count - 1           *)
SpliceKeepsLines ==
    LET count == Len(out.nested.lines)
    IN  /\ Len(out.includes.lines) = Len(out.before.lines) + count - 1
        /\ \A j \in 0..(count - 1) :
              out.includes.lines[out.line + j + 1] = out.nested.lines[j + 1]
        /\ \A i \in 0..(out.line - 1) :
              out.includes.lines[i + 1] = out.before.lines[i + 1]
        /\ \A i \in (out.line + 1)..(Len(out.before.lines) - 1) :
              out.includes.lines[i + count - 1 + 1] = out.before.lines[i + 1]

SpliceKeepsProvenance ==
    \A j \in 0..(Len(out.nested.lines) - 1), checks \in BOOLEAN :
        file_and_line_at(out.includes, out.line + j, checks) =
            file_and_line_at(out.nested, j, checks)

(* C21 as claimed: after replace_line_with_includes(line, nested) the     *)
(* line at line + j is nested's line j and file_and_line_at(line + j) is  *)
(* nested.file_and_line_at(j), for every j below nested's line count; the *)
(* lines before `line` keep content and index, the lines after it keep    *)
(* their content at an index moved by nested's line count - 1.            *)
C21_NestedProvenancePreserved ==
    Spliced => (SpliceKeepsLines /\ SpliceKeepsProvenance)

(* the half of C21 about the lines alone *)
C21_LinesOnly ==
    Spliced => SpliceKeepsLines

(* a segment of the document before the call that the call turns into    *)
(* the equal of one of the segments it appends: a one-line segment at     *)
(* `line`, widened to the range of a nested segment of the same file      *)
SegmentTwice ==
    \E i \in 1..Len(out.before.segments),
       k \in (Len(out.before.segments) + 1)..Len(out.includes.segments) :
        out.includes.segments[i] = out.includes.segments[k]

(* the provenance half of C21 where no segment occurs twice *)
C21_ProvenanceUnlessTwice ==
    (Spliced /\ ~SegmentTwice) => SpliceKeepsProvenance

(* the documents load_file returns hold no segment twice *)
C21_LoaderNoSegmentTwice ==
    (mode = "load" /\ Done) =>
        \A i, k \in 1..Len(result.includes.segments) :
            result.includes.segments[i] = result.includes.segments[k] => i = k

(* ---- C22 -------------------------------------------------------------- *)
SamePath(p, q) == PathNew(p) = PathNew(q)

(* C22 as claimed: include-once identifies files by normalized path.      *)
(* Two references that normalize to the same Path, the top-level path     *)
(* given to load_file and protocol-qualified directive targets included,  *)
(* are one entry of used_files, and such a file is loaded once and has    *)
(* one segment in the document load_file returns.                          *)
C22_NormalizedIdentity ==
    mode = "load" =>
        /\ \A p, q \in used_files : SamePath(p, q) => p = q
        /\ \A i, k \in 1..Len(loads) : SamePath(loads[i].path, loads[k].path) => i = k
        /\ Done =>
              \A i, k \in 1..Len(result.includes.segments) :
                  SamePath(result.includes.segments[i].original_file,
                           result.includes.segments[k].original_file) => i = k

(* what the keys of used_files are: the strings themselves, so a file is  *)
(* loaded once per string                                                  *)
C22_StringIdentity ==
    mode = "load" =>
        /\ \A i, k \in 1..Len(loads) : loads[i].path = loads[k].path => i = k
        /\ Done =>
              \A i, k \in 1..Len(result.includes.segments) :
                  result.includes.segments[i].original_file =
                      result.includes.segments[k].original_file => i = k

(* the target of a directive without a protocol is written in normalized  *)
(* form by Path::join and to_string                                        *)
C22_RelativeTargetsNormalized ==
    mode = "load" =>
        \A i \in 1..Len(reached) :
            reached[i].target \notin {t \in targets : get_protocol_and_path(t).protocol.some}
                => PathToString(PathNew(reached[i].target)) = reached[i].target

(* one file of the `file` scheme loaded under two spellings in one        *)
(* resolve and present twice in the result: the top-level path against a  *)
(* directive target, and two protocol-qualified directive targets          *)
LoadedTwice(i, k) ==
    /\ i < k /\ loads[i].scheme = FileScheme /\ loads[k].scheme = FileScheme
    /\ Canonicalize(loads[i].filepath) = Canonicalize(loads[k].filepath)
    /\ SamePath(loads[i].path, loads[k].path)
    /\ Cardinality(SegmentsOfFile(result.includes, loads[i].path)) = 1
    /\ Cardinality(SegmentsOfFile(result.includes, loads[k].path)) = 1

C22_CaseTopLevelSpelling ==
    /\ mode = "load" /\ Done
    /\ \E k \in 2..Len(loads) : LoadedTwice(1, k)

C22_CaseProtocolTargets ==
    /\ mode = "load" /\ Done
    /\ \E i, k \in 2..Len(loads) :
          /\ LoadedTwice(i, k)
          /\ get_protocol_and_path(loads[i].path).protocol.some

====
